---- MODULE Spec2Model ----
(***************************************************************************)
(* Drawing.SimpleGraph (examples/simple_graph/simple_graph.js): the        *)
(* constructor's three phases init(), createGraph(), animate() and the     *)
(* public operations available afterwards (stop_calculating, the           *)
(* show_labels / show_info fields), as a state machine.                    *)
(*                                                                         *)
(* Collaborators that live outside simple_graph.js (GRAPHVIS.Graph,        *)
(* GRAPHVIS.Node, Layout.ForceDirected, THREE.ObjectSelection, the DOM)    *)
(* are modelled by their contract.                                         *)
(***************************************************************************)
EXTENDS Integers, Sequences, FiniteSets, TLC

(***************************************************************************)
(* Bounds of the model.                                                    *)
(***************************************************************************)
\* longest track list of an enumerated dataset
MaxTracks == 2
\* largest node limit passed as options.limit
MaxLimit == 2
\* options.graphLayout.iterations of the enumerated runs
MaxIterations == 2

(***************************************************************************)
(* Program constants.                                                      *)
(***************************************************************************)
\* this.limit = options.limit || 10
DefaultLimit == 10

CalcMsg == "<span style='color: red'>Calculating layout...</span>"

(***************************************************************************)
(* Datasets.  A track is {trackId, tags?}; hasTags = FALSE is a track      *)
(* without a tags property.                                                *)
(***************************************************************************)
Track(id, has, tags) == [trackId |-> id, hasTags |-> has, tags |-> tags]

\* the dataset hard-coded in createGraph
bucket ==
  [tracks |-> <<
     Track(480700689, FALSE, <<>>),
     Track(359978594, FALSE, <<>>),
     Track(356671463, FALSE, <<>>),
     Track(356272697, FALSE, <<>>),
     Track(344049175, TRUE, <<"electronic", "ambient", "experimental", "hiphopbeat">>),
     Track(185501964, TRUE, <<"electronic", "ambient", "chill">>),
     Track(340786932, FALSE, <<>>),
     Track(340014346, TRUE, <<"electronic", "rap", "experimental">>),
     Track(340864271, FALSE, <<>>),
     Track(338882196, FALSE, <<>>),
     Track(340850433, FALSE, <<>>),
     Track(340858419, FALSE, <<>>),
     Track(339810494, FALSE, <<>>),
     Track(340187504, TRUE, <<"funky", "future">>),
     Track(340158750, TRUE, <<"electronic">>),
     Track(340004927, FALSE, <<>>),
     Track(337445405, FALSE, <<>>),
     Track(340028180, FALSE, <<>>),
     Track(339848591, FALSE, <<>>),
     Track(339804837, TRUE, <<"rap", "electronic">>),
     Track(339452530, FALSE, <<>>),
     Track(339712633, TRUE, <<"electronic", "house", "future">>),
     Track(337440468, TRUE, <<"electronic", "remix">>),
     Track(343562073, FALSE, <<>>),
     Track(337864490, TRUE, <<"electronic">>),
     Track(320515013, TRUE, <<"experimental", "electronic", "chill">>),
     Track(307741754, TRUE, <<"ambient", "electronic">>),
     Track(310703664, TRUE, <<"electronic", "future">>),
     Track(305079285, TRUE, <<"experimental">>),
     Track(303601544, FALSE, <<>>),
     Track(303504889, TRUE, <<"funky", "chill">>),
     Track(300196390, TRUE, <<"ambient", "electronic">>),
     Track(220929372, TRUE, <<"electronic", "trap">>),
     Track(211483614, TRUE, <<"ambient", "electronic">>),
     Track(291958088, TRUE, <<"electronic", "ambient", "experimental", "chill">>),
     Track(257091221, TRUE, <<"electronic", "ambient", "chill">>),
     Track(297755853, TRUE, <<"experimental", "electronic", "chill", "funky">>),
     Track(296685652, TRUE, <<"electronic", "rap">>),
     Track(214698107, FALSE, <<>>),
     Track(270011377, TRUE, <<"electronic", "experimental", "chill">>),
     Track(292125528, TRUE, <<"electronic", "ambient", "chill">>),
     Track(299510194, TRUE, <<"electronic", "experimental", "remix">>),
     Track(298434286, TRUE, <<"electronic", "funky", "remix">>),
     Track(264628389, TRUE, <<"ambient", "chill">>),
     Track(297297656, FALSE, <<>>),
     Track(296502414, TRUE, <<"ambient", "electronic", "chill">>),
     Track(297156837, TRUE, <<"electronic", "ambient", "experimental">>),
     Track(297455260, FALSE, <<>>),
     Track(292618548, TRUE, <<"electronic", "chill">>),
     Track(295592367, TRUE, <<"electronic", "future", "trap">>),
     Track(296087000, TRUE, <<"electronic">>),
     Track(295165549, TRUE, <<"electronic", "funky", "deep">>),
     Track(295165352, TRUE, <<"electronic", "chill">>),
     Track(294489171, TRUE, <<"electronic", "experimental", "trap">>),
     Track(295161513, TRUE, <<"electronic", "future", "chill">>),
     Track(227042825, TRUE, <<"electronic", "ambient", "chill">>),
     Track(246195391, TRUE, <<"electronic">>),
     Track(274569356, TRUE, <<"remix">>),
     Track(281670564, TRUE, <<"remix", "electronic">>),
     Track(281024707, TRUE, <<"electronic", "deep", "house", "remix">>),
     Track(294901395, TRUE, <<"chill", "electronic">>),
     Track(294279693, TRUE, <<"electronic", "experimental", "remix">>),
     Track(284887739, TRUE, <<"electronic", "ambient", "future", "chill", "experimental", "remix">>),
     Track(294231299, TRUE, <<"electronic", "experimental">>),
     Track(293351192, FALSE, <<>>),
     Track(293196567, TRUE, <<"electronic", "trap">>),
     Track(294164740, TRUE, <<"electronic", "ambient", "cover">>),
     Track(294164678, TRUE, <<"electronic", "funky", "experimental">>),
     Track(188441762, TRUE, <<"electronic", "experimental", "ambient">>),
     Track(293659186, TRUE, <<"electronic", "ambient">>),
     Track(293969465, TRUE, <<"electronic", "chill">>),
     Track(293585764, TRUE, <<"electronic", "experimental", "chill">>),
     Track(267315572, FALSE, <<>>),
     Track(285435997, TRUE, <<"electronic", "chill">>),
     Track(228024161, TRUE, <<"remix", "electronic", "chill">>),
     Track(283523608, TRUE, <<"electronic", "future", "funky">>),
     Track(285853076, TRUE, <<"electronic", "future", "chill">>),
     Track(285709322, TRUE, <<"electronic", "remix", "experimental">>),
     Track(284266335, TRUE, <<>>),
     Track(283814781, TRUE, <<"electronic", "ambient", "chill">>),
     Track(245940906, TRUE, <<"ambient", "electronic">>),
     Track(283852262, FALSE, <<>>),
     Track(266399001, FALSE, <<>>),
     Track(283052283, FALSE, <<>>),
     Track(283083300, FALSE, <<>>),
     Track(248426231, FALSE, <<>>),
     Track(282734118, FALSE, <<>>),
     Track(281672945, FALSE, <<>>),
     Track(271291165, FALSE, <<>>),
     Track(281674269, FALSE, <<>>),
     Track(278404934, FALSE, <<>>),
     Track(278366594, FALSE, <<>>),
     Track(271409580, FALSE, <<>>),
     Track(271256313, FALSE, <<>>)
   >>,
   tags |-> <<"electronic", "ambient", "experimental", "future", "funky", "trap", "chill", "rap", "deep", "remix", "house", "cover", "hiphopbeat">>]

\* track ids and tag names the enumerated datasets draw from (taken from bucket)
TrackIds == {480700689, 359978594}
TagNames == {"electronic", "ambient"}

\* tag lists of an enumerated track: empty, one tag, a tag twice, two tags
TagLists ==
  {<<>>, <<"electronic">>, <<"ambient">>, <<"electronic", "electronic">>,
   <<"electronic", "ambient">>}

\* an enumerated track: without a tags property, or with one of the tag lists
EnumTracks ==
  {Track(id, FALSE, <<>>) : id \in TrackIds}
    \cup {Track(id, TRUE, l) : id \in TrackIds, l \in TagLists}

\* top-level tag lists of an enumerated dataset: empty, one tag, two tags, a tag twice
TopLists ==
  {<<>>, <<"electronic">>, <<"electronic", "ambient">>, <<"electronic", "electronic">>}

SeqsUpTo(S, n) == UNION {[1..k -> S] : k \in 0..n}

\* datasets of the construction runs: every small dataset, and the hard-coded one
BuildBuckets ==
  {[tracks |-> ts, tags |-> tl] : ts \in SeqsUpTo(EnumTracks, MaxTracks), tl \in TopLists}
    \cup {bucket}

\* datasets of the full runs (construction, then frames)
RunBuckets ==
  { [tracks |-> <<Track(480700689, TRUE, <<"electronic", "ambient">>)>>,
     tags |-> <<"electronic", "ambient">>],
    [tracks |-> <<Track(359978594, FALSE, <<>>)>>, tags |-> <<"ambient">>] }

(***************************************************************************)
(* Strings, as JavaScript builds them.                                     *)
(***************************************************************************)
\* `T${trackId}`
TrackNodeId(trackId) == "T" \o ToString(trackId)
\* `C${tag}`
TagNodeId(tag) == "C" \o tag

(***************************************************************************)
(* createGraph, lines 160-186: the dataset transform.                      *)
(***************************************************************************)
NodeData(id, label, group) == [id |-> id, label |-> label, group |-> group]
EdgeData(from, to) == [from |-> from, to |-> to]

\* tags && tags.length
TagsTruthy(track) == track.hasTags /\ Len(track.tags) # 0

\* tags.forEach(tag => edges.push({from: trackNodeId, to: `C${tag}`}))
RECURSIVE PushTagEdges(_, _, _, _)
PushTagEdges(edges, trackNodeId, tags, k) ==
  IF k > Len(tags) THEN edges
  ELSE PushTagEdges(Append(edges, EdgeData(trackNodeId, TagNodeId(tags[k]))),
                    trackNodeId, tags, k + 1)

\* TrackTurn with the test `if (tags)`: an empty tag list is truthy in JavaScript
TrackTurn_NoLengthTest(acc, track) ==
  IF track.hasTags
  THEN LET trackNodeId == TrackNodeId(track.trackId)
       IN [trackNodes |-> Append(acc.trackNodes, NodeData(trackNodeId, "", "tracks")),
           edges |-> PushTagEdges(acc.edges, trackNodeId, track.tags, 1)]
  ELSE acc

\* one turn of bucket.tracks.forEach, lines 163-178, on acc = [trackNodes, edges]
TrackTurn(acc, track) ==
  IF TagsTruthy(track)
  THEN LET trackNodeId == TrackNodeId(track.trackId)
       IN [trackNodes |-> Append(acc.trackNodes, NodeData(trackNodeId, "", "tracks")),
           edges |-> PushTagEdges(acc.edges, trackNodeId, track.tags, 1)]
  ELSE acc

\* MapTagNodes with the id used as the label
MapTagNodes_IdAsLabel(tags) ==
  [k \in 1..Len(tags) |-> NodeData(TagNodeId(tags[k]), TagNodeId(tags[k]), "tags")]

\* bucket.tags.map(tag => ({id: `C${tag}`, label: tag, group: 'tags'}))
MapTagNodes(tags) ==
  [k \in 1..Len(tags) |-> NodeData(TagNodeId(tags[k]), tags[k], "tags")]

(***************************************************************************)
(* State.                                                                  *)
(***************************************************************************)
VARIABLES
  options,      \* the constructor's argument: showLabels, showInfo, selection,
                \* limitGiven/limit (limit is read only when limitGiven)
  data,         \* the dataset createGraph reads
  pc,           \* "init", "tracks", "tagNodes", "nodes", "edges", "layout", "running", "crashed"
  show_labels,  \* this.show_labels
  show_info,    \* this.show_info
  selection,    \* this.selection
  limit,        \* this.limit
  info_text,    \* the info_text object: <<key, value>> pairs in insertion order
  graph,        \* the GRAPHVIS.Graph: options, nodes, nodeSet, edges
  layout,       \* graph.layout, the Layout.ForceDirected (exists = FALSE before createGraph sets it)
  objs,         \* the GRAPHVIS.Node objects created so far; a node is its index here
  scene,        \* the THREE.Scene: meshes, lines and labels added, in order
  dom,          \* the element with id "graph-info"
  cg,           \* createGraph's locals: trackNodes, edges, tagNodes, nodes, graphVisNodes, i
  error,        \* the last uncaught exception ("" when none)
  stopped,      \* stop_calculating has been called
  log           \* the render calls of the last step, one record each

vars == <<options, data, pc, show_labels, show_info, selection, limit, info_text, graph,
          layout, objs, scene, dom, cg, error, stopped, log>>

\* an undefined node reference
Undefined == 0

(***************************************************************************)
(* info_text: a JavaScript object used as an insertion-ordered dictionary. *)
(***************************************************************************)
HasKey(info, key) == \E k \in 1..Len(info) : info[k][1] = key

\* info_text[key] = value
SetKey(info, key, value) ==
  IF HasKey(info, key)
  THEN [k \in 1..Len(info) |-> IF info[k][1] = key THEN <<key, value>> ELSE info[k]]
  ELSE Append(info, <<key, value>>)

\* delete info_text[key]
DeleteKey(info, key) == SelectSeq(info, LAMBDA e : e[1] # key)

(***************************************************************************)
(* GRAPHVIS.Graph and GRAPHVIS.Node (Graph.js).                            *)
(***************************************************************************)
\* new GRAPHVIS.Graph({limit: ...})
NewGraph(limitGiven, lim) ==
  [limitGiven |-> limitGiven, limit |-> lim, nodes |-> <<>>, nodeSet |-> {}, edges |-> <<>>]

\* new GRAPHVIS.Node(id)
NewNode(id) ==
  [id |-> id, hasTitle |-> FALSE, title |-> "", group |-> "",
   draw_object |-> FALSE, label_object |-> FALSE, nodesTo |-> <<>>]

\* Graph.reached_limit
reached_limit(g) == g.limitGiven /\ g.limit <= Len(g.nodes)

\* Graph.addNode's test: the id is new and the limit is not reached
addNodeAccepts(g, node) == node.id \notin g.nodeSet /\ ~reached_limit(g)

\* Graph.addNode's effect when it accepts
addNode(g, o, node) ==
  [g EXCEPT !.nodes = Append(@, o), !.nodeSet = @ \cup {node.id}]

\* Node.connectedTo(target) dereferences every entry of nodesTo and the target
connectedToThrows(h, source, target) ==
  Len(h[source].nodesTo) > 0
    /\ (target = Undefined \/ \E k \in 1..Len(h[source].nodesTo) : h[source].nodesTo[k] = Undefined)

\* Node.connectedTo: some connected node has the target's id
connectedTo(h, source, target) ==
  \E k \in 1..Len(h[source].nodesTo) : h[h[source].nodesTo[k]].id = h[target].id

(***************************************************************************)
(* Layout.ForceDirected (layouts/force-directed-layout.js).                *)
(* cold: the temperature has dropped to EPSILON or below.                  *)
(* steps: iterations of the force computation performed;                   *)
(* generate_calls: calls of generate().                                    *)
(***************************************************************************)
NoLayout ==
  [exists |-> FALSE, finished |-> FALSE, layout_iterations |-> 0, max_iterations |-> 0,
   cold |-> FALSE, steps |-> 0, generate_calls |-> 0]

\* new Layout.ForceDirected(graph, options), then init()
NewLayout(iterations) ==
  [exists |-> TRUE, finished |-> FALSE, layout_iterations |-> 0, max_iterations |-> iterations,
   cold |-> FALSE, steps |-> 0, generate_calls |-> 0]

\* generate(): one iteration while iterations and temperature allow, else finished
Layout_generate(l, cools) ==
  IF l.layout_iterations < l.max_iterations /\ ~l.cold
  THEN [l EXCEPT !.layout_iterations = @ + 1, !.cold = cools, !.steps = @ + 1,
                 !.generate_calls = @ + 1]
  ELSE [l EXCEPT !.finished = TRUE, !.generate_calls = @ + 1]

\* stop_calculating(): layout_iterations = max_iterations
Layout_stop_calculating(l) == [l EXCEPT !.layout_iterations = l.max_iterations]

(***************************************************************************)
(* The constructor, lines 52-71.                                           *)
(***************************************************************************)
OptionSets ==
  [showLabels : BOOLEAN, showInfo : BOOLEAN, selection : BOOLEAN,
   limitGiven : {TRUE}, limit : 0..MaxLimit]
    \cup [showLabels : BOOLEAN, showInfo : BOOLEAN, selection : BOOLEAN,
          limitGiven : {FALSE}, limit : {0}]

\* options.limit || 10
ThisLimit(opts) == IF opts.limitGiven /\ opts.limit # 0 THEN opts.limit ELSE DefaultLimit

\* new GRAPHVIS.Graph({limit: options.limit})
ConstructGraph(opts) == NewGraph(opts.limitGiven, opts.limit)

Construct(buckets, optionSet) ==
  /\ options \in optionSet
  /\ data \in buckets
  /\ pc = "init"
  /\ show_labels = options.showLabels
  /\ show_info = options.showInfo
  /\ selection = options.selection
  /\ limit = ThisLimit(options)
  /\ info_text = <<>>
  /\ graph = ConstructGraph(options)
  /\ layout = NoLayout
  /\ objs = <<>>
  /\ scene = [meshes |-> <<>>, lines |-> <<>>, labels |-> <<>>]
  /\ dom = [exists |-> FALSE, innerHTML |-> ""]
  /\ cg = [trackNodes |-> <<>>, edges |-> <<>>, tagNodes |-> <<>>, nodes |-> <<>>,
           graphVisNodes |-> <<>>, i |-> 1]
  /\ error = ""
  /\ stopped = FALSE
  /\ log = <<>>

(***************************************************************************)
(* init(), lines 77-147: the info box is created when show_info is set.    *)
(***************************************************************************)
init ==
  /\ pc = "init"
  /\ dom' = [exists |-> show_info, innerHTML |-> ""]
  /\ pc' = IF Len(data.tracks) > 0 THEN "tracks" ELSE "tagNodes"
  /\ UNCHANGED <<options, data, show_labels, show_info, selection, limit, info_text, graph,
                 layout, objs, scene, cg, error, stopped, log>>

(***************************************************************************)
(* createGraph(), lines 155-214.                                           *)
(***************************************************************************)
\* graphVisNodes: <<id, node>> pairs; graphVisNodes[id] = node
PutNode(m, id, o) == SetKey(m, id, o)

\* graphVisNodes[id], undefined for an id never stored
GetNode(m, id) ==
  IF HasKey(m, id) THEN (CHOOSE e \in {m[k] : k \in 1..Len(m)} : e[1] = id)[2] ELSE Undefined

\* one turn of bucket.tracks.forEach, lines 163-178
createGraph_track ==
  /\ pc = "tracks"
  /\ LET acc == TrackTurn([trackNodes |-> cg.trackNodes, edges |-> cg.edges], data.tracks[cg.i])
     IN cg' = [cg EXCEPT !.trackNodes = acc.trackNodes, !.edges = acc.edges,
                         !.i = IF cg.i < Len(data.tracks) THEN cg.i + 1 ELSE 1]
  /\ pc' = IF cg.i < Len(data.tracks) THEN "tracks" ELSE "tagNodes"
  /\ UNCHANGED <<options, data, show_labels, show_info, selection, limit, info_text, graph,
                 layout, objs, scene, dom, error, stopped, log>>

\* lines 180-186: the tag nodes, and the list of all nodes
createGraph_tagNodes ==
  /\ pc = "tagNodes"
  /\ LET tagNodes == MapTagNodes(data.tags)
         nodes == cg.trackNodes \o tagNodes
     IN /\ cg' = [cg EXCEPT !.tagNodes = tagNodes, !.nodes = nodes, !.i = 1]
        /\ pc' = IF Len(nodes) > 0 THEN "nodes" ELSE IF Len(cg.edges) > 0 THEN "edges" ELSE "layout"
  /\ UNCHANGED <<options, data, show_labels, show_info, selection, limit, info_text, graph,
                 layout, objs, scene, dom, error, stopped, log>>

\* drawNode(node), lines 219-251, for node o of heap h and scene sc
drawNode(s, o) ==
  [objs |-> [s.objs EXCEPT ![o].draw_object = TRUE, ![o].label_object = show_labels],
   scene |-> [s.scene EXCEPT !.labels = IF show_labels THEN Append(@, o) ELSE @,
                             !.meshes = Append(@, o)]]

\* lines 192-194: the node object built from an entry of nodes
BuildNode(node) ==
  [NewNode(node.id) EXCEPT !.hasTitle = (node.label # ""), !.title = node.label,
                           !.group = node.group]

\* line 196: if (graph.addNode(newNode)) drawNode(newNode)
AddAndDraw(g, s, o) ==
  IF addNodeAccepts(g, s.objs[o])
  THEN [graph |-> addNode(g, o, s.objs[o]), s |-> drawNode(s, o)]
  ELSE [graph |-> g, s |-> s]

\* one turn of nodes.forEach, lines 191-198
createGraph_node ==
  /\ pc = "nodes"
  /\ LET node == cg.nodes[cg.i]
         o == Len(objs) + 1
         r == AddAndDraw(graph, [objs |-> Append(objs, BuildNode(node)), scene |-> scene], o)
     IN /\ graph' = r.graph
        /\ objs' = r.s.objs
        /\ scene' = r.s.scene
        /\ cg' = [cg EXCEPT !.graphVisNodes = PutNode(@, node.id, o),
                            !.i = IF cg.i < Len(cg.nodes) THEN cg.i + 1 ELSE 1]
        /\ pc' = IF cg.i < Len(cg.nodes) THEN "nodes"
                 ELSE IF Len(cg.edges) > 0 THEN "edges" ELSE "layout"
  /\ UNCHANGED <<options, data, show_labels, show_info, selection, limit, info_text, layout,
                 dom, error, stopped, log>>

\* drawEdge(source, target), lines 257-275, dereferences both draw_objects
drawEdgeThrows(h, source, target) ==
  ~h[source].draw_object \/ target = Undefined \/ ~h[target].draw_object

\* one turn of edges.forEach, lines 200-204
createGraph_edge ==
  /\ pc = "edges"
  /\ LET edge == cg.edges[cg.i]
         fromNode == GetNode(cg.graphVisNodes, edge.from)
         toNode == GetNode(cg.graphVisNodes, edge.to)
         more == cg.i < Len(cg.edges)
     IN IF connectedToThrows(objs, fromNode, toNode)
        THEN /\ pc' = "crashed"
             /\ error' = "TypeError: connectedTo"
             /\ UNCHANGED <<graph, objs, scene, cg>>
        ELSE IF connectedTo(objs, fromNode, toNode)
        THEN /\ pc' = IF more THEN "edges" ELSE "layout"
             /\ cg' = [cg EXCEPT !.i = @ + 1]
             /\ UNCHANGED <<graph, objs, scene, error>>
        ELSE /\ objs' = [objs EXCEPT ![fromNode].nodesTo = Append(@, toNode)]
             /\ graph' = [graph EXCEPT !.edges = Append(@, <<fromNode, toNode>>)]
             /\ IF drawEdgeThrows(objs, fromNode, toNode)
                THEN /\ pc' = "crashed"
                     /\ error' = "TypeError: drawEdge"
                     /\ UNCHANGED <<scene, cg>>
                ELSE /\ scene' = [scene EXCEPT !.lines = Append(@, <<fromNode, toNode>>)]
                     /\ pc' = IF more THEN "edges" ELSE "layout"
                     /\ cg' = [cg EXCEPT !.i = @ + 1]
                     /\ UNCHANGED error
  /\ UNCHANGED <<options, data, show_labels, show_info, selection, limit, info_text, layout,
                 dom, stopped, log>>

\* lines 206-213: the layout is created and initialised, the counts are recorded
createGraph_layout ==
  /\ pc = "layout"
  /\ layout' = NewLayout(MaxIterations)
  /\ info_text' = SetKey(SetKey(info_text, "nodes", "Nodes " \o ToString(Len(graph.nodes))),
                         "edges", "Edges " \o ToString(Len(graph.edges)))
  /\ pc' = "frame"
  /\ UNCHANGED <<options, data, show_labels, show_info, selection, limit, graph, objs, scene,
                 dom, cg, error, stopped, log>>

(***************************************************************************)
(* render(), lines 288-350, on r = [graph, layout, objs, scene, info_text, *)
(* log].                                                                   *)
(***************************************************************************)
\* RenderLayout without the test of graph.layout.finished
RenderLayout_NoFinishedTest(r, cools) ==
  [r EXCEPT !.info_text = SetKey(@, "calc", CalcMsg),
            !.layout = Layout_generate(@, cools),
            !.log = Append(@, [finished |-> r.layout.finished, labels |-> show_labels,
                               calls |-> r.layout.generate_calls])]

\* lines 291-297: generate the layout if it is not finished
RenderLayout(r, cools) ==
  LET entry == [finished |-> r.layout.finished, labels |-> show_labels,
                calls |-> r.layout.generate_calls]
  IN IF ~r.layout.finished
     THEN [r EXCEPT !.info_text = SetKey(@, "calc", CalcMsg),
                    !.layout = Layout_generate(@, cools),
                    !.log = Append(@, entry)]
     ELSE [r EXCEPT !.info_text = SetKey(@, "calc", ""),
                    !.log = Append(@, entry)]

\* scene.remove(object): the object leaves the scene's children
SceneRemove(children, o) ==
  IF \E k \in 1..Len(children) : children[k] = o
  THEN LET k == CHOOSE j \in 1..Len(children) :
                  children[j] = o /\ \A m \in 1..(j - 1) : children[m] # o
       IN SubSeq(children, 1, k - 1) \o SubSeq(children, k + 1, Len(children))
  ELSE children

\* lines 309-326, one node: an existing label follows its node, a missing one is created
ShowLabel(r, o) ==
  IF r.objs[o].label_object
  THEN r
  ELSE [r EXCEPT !.objs[o].label_object = TRUE, !.scene.labels = Append(@, o)]

\* HideLabel without scene.remove: the label is forgotten but stays in the scene
HideLabel_NoSceneRemove(r, o) ==
  IF r.objs[o].label_object
  THEN [r EXCEPT !.objs[o].label_object = FALSE]
  ELSE r

\* lines 329-335, one node: an existing label is removed from the scene and forgotten
HideLabel(r, o) ==
  IF r.objs[o].label_object
  THEN [r EXCEPT !.scene.labels = SceneRemove(@, o), !.objs[o].label_object = FALSE]
  ELSE r

\* RenderLabels that drops the last node of the graph when labels are hidden
RenderLabels_DropsNode(r) ==
  IF ~show_labels /\ Len(r.graph.nodes) > 0
  THEN [r EXCEPT !.graph.nodes = SubSeq(@, 1, Len(@) - 1)]
  ELSE r

\* lines 305-336: the loop over graph.nodes, from index i
RECURSIVE RenderLabelsFrom(_, _)
RenderLabelsFrom(r, i) ==
  IF i > Len(r.graph.nodes) THEN r
  ELSE RenderLabelsFrom(IF show_labels THEN ShowLabel(r, r.graph.nodes[i])
                                       ELSE HideLabel(r, r.graph.nodes[i]), i + 1)

RenderLabels(r) == RenderLabelsFrom(r, 1)

\* what object_selection.render may do: nothing, selected(null), selected(a mesh of the scene)
SelectionEvents(sc, h) ==
  {[kind |-> "none", id |-> ""], [kind |-> "null", id |-> ""]}
    \cup {[kind |-> "object", id |-> h[sc.meshes[k]].id] : k \in 1..Len(sc.meshes)}

\* lines 115-122: the selected callback
selected(info, ev) ==
  IF ev.kind = "object" THEN SetKey(info, "select", "Object " \o ev.id)
  ELSE IF ev.kind = "null" THEN DeleteKey(info, "select")
  ELSE info

\* lines 338-341: render selection
RenderSelection(r, ev) ==
  IF selection THEN [r EXCEPT !.info_text = selected(@, ev)] ELSE r

render(r, ev, cools) == RenderSelection(RenderLabels(RenderLayout(r, cools)), ev)

(***************************************************************************)
(* printInfo(), lines 355-364.                                             *)
(***************************************************************************)
RECURSIVE printInfoStr(_, _, _)
printInfoStr(info, k, str) ==
  IF k > Len(info) THEN str
  ELSE printInfoStr(info, k + 1,
         (IF str # "" /\ info[k][2] # "" THEN str \o " - " ELSE str) \o info[k][2])

\* document.getElementById("graph-info").innerHTML = str; null when init created no element
printInfo(d, info) ==
  IF d.exists
  THEN [dom |-> [d EXCEPT !.innerHTML = printInfoStr(info, 1, "")], error |-> ""]
  ELSE [dom |-> d, error |-> "TypeError: printInfo"]

(***************************************************************************)
(* animate(), lines 278-285: called by the constructor, then once per      *)
(* display frame.  controls.update() may dispatch 'change', whose listener *)
(* is render.                                                              *)
(***************************************************************************)
\* the choices left to the collaborators in one render call: the selection event (when
\* selection is on) and whether the temperature drops (when the layout still iterates)
RenderChoices(r, wanted) ==
  {[ev |-> ev, cools |-> c] :
     ev \in IF wanted /\ selection THEN SelectionEvents(r.scene, r.objs)
                                    ELSE {[kind |-> "none", id |-> ""]},
     c \in IF wanted /\ ~r.layout.finished THEN BOOLEAN ELSE {FALSE}}

animate ==
  /\ pc \in {"frame", "running"}
  /\ LET r0 == [graph |-> graph, layout |-> layout, objs |-> objs, scene |-> scene,
                info_text |-> info_text, log |-> <<>>]
     IN \E change \in BOOLEAN :
          \E c1 \in RenderChoices(r0, change) :
            LET r1 == IF change THEN render(r0, c1.ev, c1.cools) ELSE r0
            IN \E c2 \in RenderChoices(r1, TRUE) :
                 LET r2 == render(r1, c2.ev, c2.cools)
                     p == IF show_info THEN printInfo(dom, r2.info_text)
                                       ELSE [dom |-> dom, error |-> ""]
                 IN /\ graph' = r2.graph
                    /\ layout' = r2.layout
                    /\ objs' = r2.objs
                    /\ scene' = r2.scene
                    /\ info_text' = r2.info_text
                    /\ log' = r2.log
                    /\ dom' = p.dom
                    /\ error' = IF p.error # "" THEN p.error ELSE error
  /\ pc' = "running"
  /\ UNCHANGED <<options, data, show_labels, show_info, selection, limit, cg, stopped>>

(***************************************************************************)
(* The public surface after construction.                                  *)
(***************************************************************************)
\* stop_calculating that does not reach the layout
stop_calculating_NoCall ==
  /\ pc = "running"
  /\ stopped' = TRUE
  /\ log' = <<>>
  /\ UNCHANGED <<options, data, pc, show_labels, show_info, selection, limit, info_text,
                 graph, layout, objs, scene, dom, cg, error>>

\* this.stop_calculating, lines 372-374
stop_calculating ==
  /\ pc = "running"
  /\ layout' = Layout_stop_calculating(layout)
  /\ stopped' = TRUE
  /\ log' = <<>>
  /\ UNCHANGED <<options, data, pc, show_labels, show_info, selection, limit, info_text,
                 graph, objs, scene, dom, cg, error>>

\* the embedding page sets show_labels during visualization (line 306)
set_show_labels ==
  /\ pc = "running"
  /\ show_labels' = ~show_labels
  /\ log' = <<>>
  /\ UNCHANGED <<options, data, pc, show_info, selection, limit, info_text, graph, layout,
                 objs, scene, dom, cg, error, stopped>>

\* the embedding page sets show_info
set_show_info ==
  /\ pc = "running"
  /\ show_info' = ~show_info
  /\ log' = <<>>
  /\ UNCHANGED <<options, data, pc, show_labels, selection, limit, info_text, graph, layout,
                 objs, scene, dom, cg, error, stopped>>

(***************************************************************************)
(* Specifications.                                                         *)
(***************************************************************************)
\* construction over every enumerated dataset, up to the constructor's call of animate
BuildOptions == {o \in OptionSets : ~o.showInfo /\ ~o.selection}
InitBuild == Construct(BuildBuckets, BuildOptions)
NextBuild ==
  \/ init
  \/ createGraph_track
  \/ createGraph_tagNodes
  \/ createGraph_node
  \/ createGraph_edge
  \/ createGraph_layout
SpecBuild == InitBuild /\ [][NextBuild]_vars

\* the whole program: construction, frames, and the public operations
RunOptions == {o \in OptionSets : o.limitGiven => o.limit = 1}
Init == Construct(RunBuckets, RunOptions)
Next ==
  \/ init
  \/ createGraph_track
  \/ createGraph_tagNodes
  \/ createGraph_node
  \/ createGraph_edge
  \/ createGraph_layout
  \/ animate
  \/ stop_calculating
  \/ set_show_labels
  \/ set_show_info
Spec == Init /\ [][Next]_vars

(***************************************************************************)
(* Vocabulary of the properties.                                           *)
(***************************************************************************)
Range(s) == {s[k] : k \in 1..Len(s)}
Count(s, x) == Cardinality({k \in 1..Len(s) : s[k] = x})
Last(s) == s[Len(s)]

\* the track loop of createGraph is over
TracksDone == pc \notin {"init", "tracks"}
\* lines 180-186 of createGraph are over
TagNodesDone == TracksDone /\ pc # "tagNodes"
\* nodes.forEach of createGraph is over
NodesDone == TagNodesDone /\ pc # "nodes"
\* createGraph has returned or thrown
BuildOver == pc \in {"frame", "running", "crashed"}

\* the tracks of the dataset that have a non-empty tag list
TaggedTracks == {j \in 1..Len(data.tracks) : data.tracks[j].hasTags /\ data.tracks[j].tags # <<>>}
\* the entries <<track, position>> of the tag lists of the dataset
TagEntries == UNION {{<<j, m>> : m \in 1..Len(data.tracks[j].tags)} : j \in TaggedTracks}
\* every tag that occurs in the dataset
AllTags == Range(data.tags) \cup {data.tracks[e[1]].tags[e[2]] : e \in TagEntries}
\* the ids of the nodes the graph holds
GraphIds == {objs[graph.nodes[k]].id : k \in 1..Len(graph.nodes)}

(***************************************************************************)
(* C1: once the track loop of createGraph is over, every track with a      *)
(* present, non-empty tag list has produced exactly one track node (id     *)
(* "T" + trackId, group "tracks") and exactly one edge per entry of its    *)
(* tag list (from that node to "C" + tag); a track whose tag list is       *)
(* empty or missing has produced no node and no edge.  With several        *)
(* tracks of one id, the counts add up track by track.                     *)
(***************************************************************************)
C1_Counts(tagged, entries) ==
  /\ Len(cg.trackNodes) = Cardinality(tagged)
  /\ Len(cg.edges) = Cardinality(entries)
  /\ \A k \in 1..Len(cg.trackNodes) : cg.trackNodes[k].group = "tracks"
  /\ \A j \in 1..Len(data.tracks) :
       LET id == "T" \o ToString(data.tracks[j].trackId)
           same == {i \in tagged : data.tracks[i].trackId = data.tracks[j].trackId}
           mine == {e \in entries : e[1] \in same}
           out == {k \in 1..Len(cg.edges) : cg.edges[k].from = id}
       IN /\ Cardinality({k \in 1..Len(cg.trackNodes) : cg.trackNodes[k].id = id})
               = Cardinality(same)
          /\ Cardinality(out) = Cardinality(mine)
          /\ \A t \in {data.tracks[e[1]].tags[e[2]] : e \in mine} :
               Cardinality({k \in out : cg.edges[k].to = "C" \o t})
                 = Cardinality({e \in mine : data.tracks[e[1]].tags[e[2]] = t})

C1_TrackTransform == TracksDone => C1_Counts(TaggedTracks, TagEntries)

\* the loop has run over a dataset with a tagged track, an empty tag list and a missing one
C1_Witness ==
  /\ pc = "tagNodes"
  /\ \E j \in TaggedTracks : Len(data.tracks[j].tags) > 1
  /\ \E j \in 1..Len(data.tracks) : data.tracks[j].hasTags /\ data.tracks[j].tags = <<>>
  /\ \E j \in 1..Len(data.tracks) : ~data.tracks[j].hasTags

(***************************************************************************)
(* C2, as claimed: at the end of construction every tag that occurs in the *)
(* dataset (in a track's tag list or in the top-level list) has exactly    *)
(* one tag node (id "C" + tag, group "tags", label = tag) and the graph    *)
(* holds exactly one node for it.                                          *)
(***************************************************************************)
C2_Claimed ==
  BuildOver =>
    \A t \in AllTags :
      /\ Cardinality({k \in 1..Len(cg.tagNodes) : cg.tagNodes[k].id = "C" \o t}) = 1
      /\ \A k \in 1..Len(cg.tagNodes) :
           cg.tagNodes[k].id = "C" \o t =>
             cg.tagNodes[k].group = "tags" /\ cg.tagNodes[k].label = t
      /\ Cardinality({k \in 1..Len(graph.nodes) : objs[graph.nodes[k]].id = "C" \o t}) = 1

\* the number of distinct node ids of the dataset's node list
DistinctIds == Cardinality({cg.nodes[k].id : k \in 1..Len(cg.nodes)})

\* the node limit refuses no id of the dataset
LimitSuffices == ~options.limitGiven \/ DistinctIds <= options.limit

(***************************************************************************)
(* C2, amended: tag nodes come from the top-level tag list alone, one per  *)
(* entry: a tag has as many tag nodes (id "C" + tag, group "tags", label = *)
(* tag) as it has occurrences in the top-level list, whatever the tracks   *)
(* carry, so exactly one when it is listed once and none when it occurs    *)
(* only in track lists.  The graph never holds two nodes of one id, and    *)
(* once the nodes are added it holds exactly one node for every top-level  *)
(* tag provided the node limit refuses none.                               *)
(***************************************************************************)
C2_TagNodes ==
  /\ \A i, j \in 1..Len(graph.nodes) :
       objs[graph.nodes[i]].id = objs[graph.nodes[j]].id => i = j
  /\ TagNodesDone =>
       /\ Len(cg.tagNodes) = Len(data.tags)
       /\ \A t \in AllTags :
            /\ Cardinality({k \in 1..Len(cg.tagNodes) : cg.tagNodes[k].id = "C" \o t})
                 = Count(data.tags, t)
            /\ \A k \in 1..Len(cg.tagNodes) :
                 cg.tagNodes[k].id = "C" \o t =>
                   cg.tagNodes[k].group = "tags" /\ cg.tagNodes[k].label = t
  /\ (NodesDone /\ LimitSuffices) =>
       \A t \in Range(data.tags) :
         Cardinality({k \in 1..Len(graph.nodes) : objs[graph.nodes[k]].id = "C" \o t}) = 1

\* construction has completed for a dataset in which two tracks carry a top-level tag
C2_Witness ==
  /\ pc = "frame"
  /\ \E t \in Range(data.tags) :
       /\ Cardinality({e[1] : e \in {e \in TagEntries : data.tracks[e[1]].tags[e[2]] = t}}) > 1
       /\ "C" \o t \in GraphIds

(***************************************************************************)
(* C3, as claimed: in every state during and after construction the graph  *)
(* holds at most this.limit nodes (options.limit when given, 10 when       *)
(* omitted), and every mesh in the scene belongs to a node the graph       *)
(* accepted.                                                               *)
(***************************************************************************)
C3_Claimed ==
  /\ Len(graph.nodes) <= limit
  /\ \A k \in 1..Len(scene.meshes) : scene.meshes[k] \in Range(graph.nodes)

(***************************************************************************)
(* C4, as claimed: duplicates are skipped silently.  For a dataset in      *)
(* which nothing but duplicates can be refused (no limit given, every      *)
(* track tag listed at top level) construction completes without an        *)
(* exception, the graph holds exactly the distinct nodes and the distinct  *)
(* edges of the dataset, and the scene holds exactly one mesh per graph    *)
(* node and one line per graph edge.                                       *)
(***************************************************************************)
C4_Claimed ==
  (BuildOver /\ ~options.limitGiven /\ AllTags \subseteq Range(data.tags)) =>
    /\ pc # "crashed"
    /\ error = ""
    /\ GraphIds = {cg.nodes[k].id : k \in 1..Len(cg.nodes)}
    /\ Len(graph.nodes) = DistinctIds
    /\ {<<objs[e[1]].id, objs[e[2]].id>> : e \in Range(graph.edges)}
         = {<<cg.edges[k].from, cg.edges[k].to>> : k \in 1..Len(cg.edges)}
    /\ Len(graph.edges) = Cardinality(Range(cg.edges))
    /\ scene.meshes = graph.nodes
    /\ scene.lines = graph.edges

(***************************************************************************)
(* C10, as claimed: every edge createGraph passes to graph.addEdge and     *)
(* drawEdge joins two nodes that are defined, held by the graph and drawn, *)
(* so no edge step dereferences a missing node or draw_object.             *)
(***************************************************************************)
C10_Claimed ==
  /\ error = ""
  /\ \A k \in 1..Len(graph.edges) :
       \A n \in {graph.edges[k][1], graph.edges[k][2]} :
         n # Undefined /\ n \in Range(graph.nodes) /\ objs[n].draw_object

\* a step after createGraph has returned keeps the graph's nodes and edges
GraphKept ==
  pc \in {"frame", "running"} =>
    /\ graph'.nodes = graph.nodes
    /\ graph'.edges = graph.edges
    /\ graph'.nodeSet = graph.nodeSet
    /\ \A o \in 1..Len(objs) : objs'[o].nodesTo = objs[o].nodesTo

(***************************************************************************)
(* C5: once createGraph has returned, no step (animate with its render     *)
(* calls and selection callbacks, a show_labels or show_info toggle,       *)
(* stop_calculating) adds or removes a node or an edge of the graph.       *)
(***************************************************************************)
C5_GraphFrozen == [][GraphKept]_vars

\* a frame has been rendered after a stop, with both flags toggled and an object selected
C5_Witness ==
  /\ pc = "running"
  /\ stopped
  /\ log # <<>>
  /\ Len(graph.nodes) > 1
  /\ Len(graph.edges) > 0
  /\ show_labels # options.showLabels
  /\ show_info # options.showInfo
  /\ HasKey(info_text, "select")

\* a step after stop_calculating: no iteration, finished once rendered, finished for good
StaysStopped ==
  stopped =>
    /\ layout'.steps = layout.steps
    /\ (log' # <<>> => layout'.finished)
    /\ (layout.finished => layout'.finished)

NonEmptyValues(info) == SelectSeq([k \in 1..Len(info) |-> info[k][2]], LAMBDA v : v # "")

\* strs joined by sep
RECURSIVE Join(_, _)
Join(strs, sep) ==
  IF Len(strs) = 0 THEN ""
  ELSE IF Len(strs) = 1 THEN strs[1]
  ELSE strs[1] \o sep \o Join(Tail(strs), sep)

(***************************************************************************)
(* C7, as claimed: whenever show_info is set, after every animation frame  *)
(* the element "graph-info" exists and its content is the non-empty        *)
(* entries of info_text, in insertion order, joined by " - ".              *)
(***************************************************************************)
C7_Claimed ==
  (pc = "running" /\ show_info /\ log # <<>>) =>
    /\ dom.exists
    /\ dom.innerHTML = Join(NonEmptyValues(info_text), " - ")

\* the calls of generate() made by render call k of the last step
GenerateCalls(lg, after, k) ==
  (IF k < Len(lg) THEN lg[k + 1].calls ELSE after) - lg[k].calls

\* info_text.calc
CalcText(info) == (CHOOSE e \in Range(info) : e[1] = "calc")[2]

\* a step's render calls poll graph.layout.finished
PollsLayout ==
  /\ \A k \in 1..Len(log') :
       GenerateCalls(log', layout'.generate_calls, k) = IF log'[k].finished THEN 0 ELSE 1
  /\ log' # <<>> =>
       CalcText(info_text') = IF Last(log').finished THEN "" ELSE CalcMsg
  /\ layout.finished =>
       layout'.finished /\ layout'.generate_calls = layout.generate_calls
  /\ pc = "running" => pc' = "running"

(***************************************************************************)
(* C8: every render step calls graph.layout.generate() exactly when        *)
(* graph.layout.finished is false at its start, and leaves the calc        *)
(* status text at the "Calculating layout..." message exactly in that      *)
(* case and empty otherwise; once the layout reports finished it stays     *)
(* finished and generate() is never called again, while the frame loop     *)
(* goes on (the running state is never left).                              *)
(***************************************************************************)
C8_RenderPolls == [][PollsLayout]_vars

\* a render step has run on a layout that had converged by itself
C8_Witness ==
  /\ pc = "running"
  /\ ~stopped
  /\ log # <<>>
  /\ Last(log).finished
  /\ layout.generate_calls > 1
  /\ CalcText(info_text) = ""

(***************************************************************************)
(* C9: after a render step run with show_labels set, every node of the     *)
(* graph has a label object that is in the scene; after one run with       *)
(* show_labels unset, no node has a label object and no label is left in   *)
(* the scene; and in every state a node has at most one label in the       *)
(* scene.                                                                  *)
(***************************************************************************)
C9_LabelsFollowFlag ==
  /\ \A o \in 1..Len(objs) : Count(scene.labels, o) <= 1
  /\ (log # <<>> /\ Last(log).labels) =>
       \A o \in Range(graph.nodes) : objs[o].label_object /\ o \in Range(scene.labels)
  /\ (log # <<>> /\ ~Last(log).labels) =>
       /\ \A o \in 1..Len(objs) : ~objs[o].label_object
       /\ scene.labels = <<>>

\* labels were off at construction, were switched on during visualization, and a frame ran
C9_Witness ==
  /\ ~options.showLabels
  /\ show_labels
  /\ log # <<>>
  /\ Last(log).labels
  /\ Len(graph.nodes) > 1
  /\ \A o \in Range(graph.nodes) : Count(scene.labels, o) = 1
====
